---- MODULE Spec2Model ----
(***************************************************************************)
(* Model of src/tech_brews.py: the NotionPageReader session (visited_urls, *)
(* page_contents) and the answer_question pipeline                         *)
(*   extract_page_content -> extract_notion_links -> ask_llm_for_links     *)
(*   -> extract_page_content per selected link -> generate_answer.         *)
(*                                                                         *)
(* Representation.  A Python str holding page text is a sequence of chunks *)
(* [s, n]: the string s repeated n times.  A run of newlines is one chunk  *)
(* ["\n", n]; a chunk boundary never falls inside a URL.  Short strings    *)
(* (URLs, labels) are TLA+ strings.  A Python value coming out of          *)
(* json.loads is a record [t, s, items] with t in str / int / none / list. *)
(***************************************************************************)
EXTENDS Integers, Sequences, FiniteSets, TLC

\* ---------------------------------------------------------------- bounds
MaxCalls == 1          \* calls made on one NotionPageReader
MaxReplyLen == 6       \* longest JSON array the model replies with

\* ------------------------------------------------------ program constants
MAX_LINKS_TO_FOLLOW == 5
CONTEXT_LIMIT == 15000
HTTP_OK == 200

\* ------------------------------------------------------------ Python values
Str(s) == [t |-> "str", s |-> s, items |-> << >>]
Num(s) == [t |-> "int", s |-> s, items |-> << >>]
PyNone == [t |-> "none", s |-> "None", items |-> << >>]
List(items) == [t |-> "list", s |-> "", items |-> items]

\* hash(v) succeeds: a list is unhashable, `v in a_set` raises TypeError
Hashable(v) == v.t # "list"

\* ------------------------------------------------------------------ text
Chunk(s, n) == [s |-> s, n |-> n]
Lit(s) == << Chunk(s, 1) >>

RECURSIVE TextLen(_)
TextLen(text) ==
    IF text = << >> THEN 0
    ELSE Len(Head(text).s) * Head(text).n + TextLen(Tail(text))

Min(a, b) == IF a < b THEN a ELSE b

\* re.sub(r'\n{3,}', '\n\n', content)
CleanChunk(c) == IF c.s = "\n" /\ c.n >= 3 THEN Chunk("\n", 2) ELSE c
CleanContent(text) == [k \in 1..Len(text) |-> CleanChunk(text[k])]

\* text[:k]
RECURSIVE Slice(_, _)
Slice(text, k) ==
    IF text = << >> \/ k <= 0 THEN << >>
    ELSE LET c == Head(text)
             w == Len(c.s)
             full == w * c.n
         IN IF full <= k THEN << c >> \o Slice(Tail(text), k - full)
            ELSE LET q == k \div w
                     r == k % w
                 IN (IF q > 0 THEN << Chunk(c.s, q) >> ELSE << >>)
                    \o (IF r > 0 THEN Lit(SubSeq(c.s, 1, r)) ELSE << >>)

\* ------------------------------------------------ extract_notion_links
StartsAt(s, i, p) == i + Len(p) - 1 <= Len(s) /\ SubSeq(s, i, i + Len(p) - 1) = p

PathStop == {" ", "\n", "\t", "\r", ")", "\"", "'"}

\* end (exclusive) of the longest run of [^\s\)"\'] starting at j
RECURSIVE PathEnd(_, _)
PathEnd(s, j) ==
    IF j > Len(s) \/ SubSeq(s, j, j) \in PathStop THEN j ELSE PathEnd(s, j + 1)

\* end (exclusive) of a match of the pattern starting at i, 0 if none
MatchEnd(s, i) ==
    IF ~StartsAt(s, i, "https://") THEN 0
    ELSE LET a == i + 8
             b == IF StartsAt(s, a, "www.") THEN a + 4 ELSE a
         IN IF ~StartsAt(s, b, "notion.") THEN 0
            ELSE LET c == b + 7
                     d == IF StartsAt(s, c, "site") THEN c + 4
                          ELSE IF StartsAt(s, c, "so") THEN c + 2 ELSE 0
                 IN IF d = 0 \/ ~StartsAt(s, d, "/") THEN 0
                    ELSE LET e == PathEnd(s, d + 1)
                         IN IF e > d + 1 THEN e ELSE 0

\* re.findall(pattern, s) from position i
RECURSIVE FindAll(_, _)
FindAll(s, i) ==
    IF i > Len(s) THEN << >>
    ELSE IF SubSeq(s, i, i) # "h" THEN FindAll(s, i + 1)
    ELSE LET e == MatchEnd(s, i)
         IN IF e > 0 THEN << SubSeq(s, i, e - 1) >> \o FindAll(s, e)
            ELSE FindAll(s, i + 1)

Range(f) == {f[k] : k \in DOMAIN f}

\* set(re.findall(pattern, text))
NotionLinkSet(text) == UNION {Range(FindAll(text[k].s, 1)) : k \in 1..Len(text)}

\* the orders list(set(...)) may produce
Orderings(S) ==
    {q \in [1..Cardinality(S) -> S] : \A a, b \in 1..Cardinality(S) : a # b => q[a] # q[b]}

\* ---------------------------------------------------- json.loads (arrays)
\* A model reply is a sequence of tokens [k, s]:
\*   lb "[", rb "]", comma, str (a JSON string), num, null, txt (prose).
Tok(k, s) == [k |-> k, s |-> s]
LB == Tok("lb", "[")
RB == Tok("rb", "]")
COMMA == Tok("comma", ",")
NULL == Tok("null", "null")

ParseFail == [ok |-> FALSE, val |-> PyNone, next |-> 0]

RECURSIVE ParseValue(_, _), ParseItems(_, _, _)
ParseValue(toks, i) ==
    IF i > Len(toks) THEN ParseFail
    ELSE CASE toks[i].k = "str" -> [ok |-> TRUE, val |-> Str(toks[i].s), next |-> i + 1]
           [] toks[i].k = "num" -> [ok |-> TRUE, val |-> Num(toks[i].s), next |-> i + 1]
           [] toks[i].k = "null" -> [ok |-> TRUE, val |-> PyNone, next |-> i + 1]
           [] toks[i].k = "lb" ->
                IF i + 1 <= Len(toks) /\ toks[i + 1].k = "rb"
                THEN [ok |-> TRUE, val |-> List(<< >>), next |-> i + 2]
                ELSE ParseItems(toks, i + 1, << >>)
           [] OTHER -> ParseFail
ParseItems(toks, i, acc) ==
    LET r == ParseValue(toks, i)
    IN IF ~r.ok \/ r.next > Len(toks) THEN ParseFail
       ELSE IF toks[r.next].k = "rb"
            THEN [ok |-> TRUE, val |-> List(Append(acc, r.val)), next |-> r.next + 1]
       ELSE IF toks[r.next].k = "comma"
            THEN ParseItems(toks, r.next + 1, Append(acc, r.val))
       ELSE ParseFail

\* json.loads(json_str): the whole string must be one value
JsonLoads(toks) ==
    LET r == ParseValue(toks, 1)
    IN IF r.ok /\ r.next = Len(toks) + 1 THEN r ELSE ParseFail

TakeAll(lst, k) == lst

\* lst[:k]
Take(lst, k) == SubSeq(lst, 1, Min(Len(lst), k))

\* ------------------------------------------------------ ask_llm_for_links
\* reply: [exc, status_code, content]; exc = requests.post or response.json()
\* raised.  The return value is a Python list, as a sequence of values.
AskLlmForLinks(available_links, reply) ==
    IF available_links = << >> THEN << >>
    ELSE IF reply.exc THEN << >>
    ELSE IF reply.status_code # HTTP_OK THEN << >>
    ELSE LET content == reply.content
             lbs == {k \in 1..Len(content) : content[k].k = "lb"}
             rbs == {k \in 1..Len(content) : content[k].k = "rb"}
         IN IF lbs = {} \/ rbs = {} THEN << >>
            ELSE LET json_start == CHOOSE k \in lbs : \A m \in lbs : k <= m
                     json_end == (CHOOSE k \in rbs : \A m \in rbs : k >= m) + 1
                     json_str == SubSeq(content, json_start, json_end - 1)
                     parsed == JsonLoads(json_str)
                 IN IF ~parsed.ok THEN << >>
                    ELSE Take(parsed.val.items, MAX_LINKS_TO_FOLLOW)

\* --------------------------------------------------- extract_page_content
CacheHitNever(visited, u) == FALSE

\* line 22: url in self.visited_urls
CacheHit(visited, u) == u \in visited

\* resp: [exc, status_code, text] is what requests.get does for this call.
\* Result: raised (TypeError out of line 22), ret (the returned text),
\* the session after the call, and whether a network request was issued.
ExtractPageContent(visited, contents, u, resp) ==
    IF ~Hashable(u)
    THEN [raised |-> TRUE, ret |-> << >>, visited |-> visited,
          contents |-> contents, net |-> FALSE]
    ELSE IF CacheHit(visited, u)
    THEN [raised |-> FALSE,
          ret |-> IF u \in DOMAIN contents THEN contents[u] ELSE << >>,
          visited |-> visited, contents |-> contents, net |-> FALSE]
    ELSE IF resp.exc
    THEN [raised |-> FALSE, ret |-> << >>, visited |-> visited,
          contents |-> contents, net |-> TRUE]
    ELSE IF resp.status_code = HTTP_OK
    THEN LET content == CleanContent(resp.text)
         IN [raised |-> FALSE, ret |-> content, visited |-> visited \cup {u},
             contents |-> [k \in DOMAIN contents \cup {u} |->
                              IF k = u THEN content ELSE contents[k]],
             net |-> TRUE]
    ELSE [raised |-> FALSE, ret |-> << >>, visited |-> visited,
          contents |-> contents, net |-> TRUE]

\* -------------------------------------------------------- context assembly
\* f"=== Main Page ({url}) ===\n{main_content}\n"
MainSection(u, main_content) ==
    Lit("=== Main Page (" \o u.s \o ") ===\n") \o main_content \o Lit("\n")

\* f"\n\n=== Linked Page: {link} ===\n{link_content}\n"
LinkedSection(link, link_content) ==
    Lit("\n\n=== Linked Page: " \o link.s \o " ===\n") \o link_content \o Lit("\n")

PromptContextWhole(context) == context

\* context[:15000] inside generate_answer's prompt
PromptContext(context) == Slice(context, CONTEXT_LIMIT)

NoMainContentNever(content) == FALSE

\* line 107: not main_content
NoMainContent(content) == TextLen(content) = 0

HasLinkContentAlways(content) == TRUE

\* line 130: if link_content
HasLinkContent(content) == TextLen(content) # 0

FAILURE_MESSAGE == "Couldn't extract content from the page. The page might be private or blocked."

\* generate_answer's return value for a reply [exc, status_code, content]
GenerateAnswer(reply) ==
    IF reply.exc THEN "Error generating answer"
    ELSE IF reply.status_code = HTTP_OK THEN "answer"
    ELSE "API Error"

\* ------------------------------------------------------------ environment
DEFAULT_NOTION_URL == "https://techbrews.notion.site/Welcome-to-Tech-Brews-a9805827439d46f3b9d60a10bf39ebda"
HomeUrl == "https://notion.so/home"
BigUrl == "https://notion.so/big"
EmptyUrl == "https://notion.so/empty"
LinkA == "https://notion.so/a"
LinkB == "https://www.notion.site/b"
LinkC == "https://notion.so/c"
EvilUrl == "https://notion.so/evil"

\* the url argument of answer_question
MainUrls == {DEFAULT_NOTION_URL, HomeUrl, BigUrl, EmptyUrl}

\* response.text the content service may produce for a request of url s
PageBodies(s) ==
    CASE s = DEFAULT_NOTION_URL ->
           {<< Chunk("Welcome", 1), Chunk("\n", 4),
               Chunk("Guides: https://notion.so/a (https://www.notion.site/b) and \"https://notion.so/c\"", 1),
               Chunk("\n", 1),
               Chunk("Elsewhere: https://techbrews.notion.site/x http://notion.so/y https://notion.so/", 1) >>}
      [] s = HomeUrl ->
           {<< Chunk("Start https://notion.so/a https://notion.so/a", 1), Chunk("\n", 3),
               Chunk("Back to https://notion.so/home", 1) >>}
      [] s = BigUrl ->
           {<< Chunk("No links: https://example.com/notion.so/ https://notion.com/a", 1),
               Chunk("\n", 2), Chunk("x", 15000) >>}
      [] s = EmptyUrl -> {<< >>}
      [] s = LinkA -> {Lit("About A"), << Chunk("A, revised", 1), Chunk("\n", 5) >>}
      [] s = LinkB -> {Lit("B links on to https://notion.so/deep")}
      [] s = LinkC -> {<< Chunk("C", 1), Chunk("\n", 1), Chunk("y", 14950) >>}
      [] OTHER -> {Lit("page")}

Response(exc, status_code, text) == [exc |-> exc, status_code |-> status_code, text |-> text]

\* what requests.get may do for url s: 200 with a body, another status, raise
Responses(s) ==
    {Response(FALSE, HTTP_OK, b) : b \in PageBodies(s)}
        \cup {Response(FALSE, 404, << >>), Response(TRUE, 0, << >>)}

Reply(exc, status_code, content) == [exc |-> exc, status_code |-> status_code, content |-> content]

S(u) == Tok("str", u)
Prose == Tok("txt", "Here are the links:")

\* "[e1, e2, ..., en]" cycling through A, B, C
CycleElem(k) == IF k % 3 = 1 THEN S(LinkA) ELSE IF k % 3 = 2 THEN S(LinkB) ELSE S(LinkC)
RECURSIVE Joined(_, _)
Joined(k, n) == IF k > n THEN << >>
                ELSE IF k = n THEN << CycleElem(k) >>
                ELSE << CycleElem(k), COMMA >> \o Joined(k + 1, n)
CycleArray(n) == << LB >> \o Joined(1, n) \o << RB >>

\* choices[0].message.content of the relevance selector's reply
SelectorContents ==
    {CycleArray(n) : n \in {0, 3, MaxReplyLen - 1, MaxReplyLen}}
        \cup {<< Prose >> \o CycleArray(2),
              << Prose >>,
              << RB, Prose, LB >>,
              << LB, S(LinkA), COMMA, RB >>,
              << LB, S(LinkA), RB, Prose, RB >>,
              << LB, S(LinkA), COMMA, S(LinkA), RB >>,
              << LB, S(LinkC), COMMA, S(LinkA), RB >>,
              << LB, S(HomeUrl), COMMA, S(LinkA), RB >>,
              << LB, S(EvilUrl), RB >>,
              << LB, S(LinkA), COMMA, LB, S(LinkB), RB, RB >>,
              << LB, Tok("num", "5"), COMMA, NULL, RB >>}

SelectorReplies ==
    {Reply(FALSE, HTTP_OK, c) : c \in SelectorContents}
        \cup {Reply(FALSE, 500, << >>), Reply(TRUE, 0, << >>)}

SynthReplies ==
    {Reply(FALSE, HTTP_OK, << >>), Reply(FALSE, 429, << >>), Reply(TRUE, 0, << >>)}

\* ------------------------------------------------------------------ state
VARIABLES
    visited_urls,    \* self.visited_urls
    page_contents,   \* self.page_contents
    pc,              \* position in answer_question / the caller
    url,             \* answer_question's url argument
    follow_links,    \* answer_question's follow_links argument
    main_content,
    all_content,
    links,
    relevant_links,
    idx,             \* position of the for loop in relevant_links
    result,          \* the value answer_question returned
    calls,           \* calls made on this reader so far
    requests,        \* history: network requests issued per url in this session
    first_stored,    \* history: content stored by the first successful fetch
    events,          \* history: external calls of the current call, in order
    sent             \* history: the context text put into generate_answer's prompt

vars == << visited_urls, page_contents, pc, url, follow_links, main_content,
           all_content, links, relevant_links, idx, result, calls, requests,
           first_stored, events, sent >>

session == << visited_urls, page_contents >>
locals == << url, follow_links, main_content, all_content, links, relevant_links, idx >>

FetchEvent(u, r) == [op |-> "fetch", arg |-> u, net |-> r.net, ret |-> r.ret]
SelectEvent == [op |-> "select", arg |-> PyNone, net |-> TRUE, ret |-> << >>]
GenerateEvent == [op |-> "generate", arg |-> PyNone, net |-> TRUE, ret |-> << >>]

Count(f, u) == IF u \in DOMAIN f THEN f[u] ELSE 0
Bump(f, u) == [k \in DOMAIN f \cup {u} |-> IF k = u THEN Count(f, u) + 1 ELSE f[k]]
Remember(f, u, c) == IF u \in DOMAIN f THEN f
                     ELSE [k \in DOMAIN f \cup {u} |-> IF k = u THEN c ELSE f[k]]

\* the session and history after one extract_page_content(u) call with outcome r
Fetched(u, r) ==
    /\ visited_urls' = r.visited
    /\ page_contents' = r.contents
    /\ requests' = IF r.net THEN Bump(requests, u) ELSE requests
    /\ first_stored' = IF r.net /\ u \in r.visited
                       THEN Remember(first_stored, u, r.ret) ELSE first_stored

Init ==
    /\ visited_urls = {}
    /\ page_contents = << >>
    /\ pc = "idle"
    /\ url = PyNone
    /\ follow_links = FALSE
    /\ main_content = << >>
    /\ all_content = << >>
    /\ links = << >>
    /\ relevant_links = << >>
    /\ idx = 0
    /\ result = ""
    /\ calls = 0
    /\ requests = << >>
    /\ first_stored = << >>
    /\ events = << >>
    /\ sent = << >>

\* answer_question(question, u, fl), lines 102-113: the main page fetch
FetchMain(u, fl, resp) ==
    /\ pc = "idle"
    /\ calls < MaxCalls
    /\ LET r == ExtractPageContent(visited_urls, page_contents, u, resp)
       IN /\ Fetched(u, r)
          /\ events' = << FetchEvent(u, r) >>
          /\ url' = u
          /\ follow_links' = fl
          /\ main_content' = r.ret
          /\ IF NoMainContent(r.ret)
             THEN /\ pc' = "Fail"
                  /\ result' = FAILURE_MESSAGE
                  /\ all_content' = << >>
             ELSE /\ pc' = IF fl THEN "ExtractLinks" ELSE "Synthesize"
                  /\ result' = ""
                  /\ all_content' = MainSection(u, r.ret)
    /\ calls' = calls + 1
    /\ UNCHANGED << links, relevant_links, idx, sent >>

ExtractLinksAlwaysSelect ==
    /\ pc = "ExtractLinks"
    /\ \E order \in Orderings(NotionLinkSet(main_content)) :
          /\ links' = [k \in DOMAIN order |-> Str(order[k])]
          /\ pc' = "SelectRelevant"
    /\ UNCHANGED << session, url, follow_links, main_content, all_content,
                    relevant_links, idx, result, calls, requests, first_stored,
                    events, sent >>

\* lines 115-117: links = self.extract_notion_links(main_content)
ExtractLinks ==
    /\ pc = "ExtractLinks"
    /\ \E order \in Orderings(NotionLinkSet(main_content)) :
          /\ links' = [k \in DOMAIN order |-> Str(order[k])]
          /\ pc' = IF order = << >> THEN "Synthesize" ELSE "SelectRelevant"
    /\ UNCHANGED << session, url, follow_links, main_content, all_content,
                    relevant_links, idx, result, calls, requests, first_stored,
                    events, sent >>

\* lines 121-123: relevant_links = self.ask_llm_for_links(...)
SelectRelevant(reply) ==
    /\ pc = "SelectRelevant"
    /\ relevant_links' = AskLlmForLinks(links, reply)
    /\ events' = Append(events, SelectEvent)
    /\ IF relevant_links' = << >>
       THEN pc' = "Synthesize" /\ idx' = 0
       ELSE pc' = "FetchSelected" /\ idx' = 1
    /\ UNCHANGED << session, url, follow_links, main_content, all_content,
                    links, result, calls, requests, first_stored, sent >>

\* lines 127-131: one iteration of the loop over relevant_links
FetchSelected(resp) ==
    /\ pc = "FetchSelected"
    /\ LET link == relevant_links[idx]
           r == ExtractPageContent(visited_urls, page_contents, link, resp)
       IN /\ Fetched(link, r)
          /\ events' = Append(events, FetchEvent(link, r))
          /\ IF r.raised
             THEN /\ pc' = "Raised"
                  /\ UNCHANGED << all_content, idx >>
             ELSE /\ all_content' = IF HasLinkContent(r.ret)
                                    THEN all_content \o LinkedSection(link, r.ret)
                                    ELSE all_content
                  /\ idx' = idx + 1
                  /\ pc' = IF idx = Len(relevant_links) THEN "Synthesize"
                           ELSE "FetchSelected"
    /\ UNCHANGED << url, follow_links, main_content, links, relevant_links,
                    result, calls, sent >>

\* lines 134-135: return self.generate_answer(question, all_content)
Synthesize(reply) ==
    /\ pc = "Synthesize"
    /\ sent' = PromptContext(all_content)
    /\ result' = GenerateAnswer(reply)
    /\ events' = Append(events, GenerateEvent)
    /\ pc' = "Done"
    /\ UNCHANGED << session, locals, calls, requests, first_stored >>

\* a caller invoking extract_page_content(u) directly on the reader
DirectExtract(u, resp) ==
    /\ pc = "idle"
    /\ calls < MaxCalls
    /\ LET r == ExtractPageContent(visited_urls, page_contents, u, resp)
       IN /\ Fetched(u, r)
          /\ events' = << FetchEvent(u, r) >>
    /\ pc' = "Extracted"
    /\ calls' = calls + 1
    /\ UNCHANGED << locals, result, sent >>

\* the call is over (returned or raised); the reader is ready for the next
Return ==
    /\ pc \in {"Done", "Fail", "Raised", "Extracted"}
    /\ pc' = "idle"
    /\ url' = PyNone
    /\ follow_links' = FALSE
    /\ main_content' = << >>
    /\ all_content' = << >>
    /\ links' = << >>
    /\ relevant_links' = << >>
    /\ idx' = 0
    /\ result' = ""
    /\ events' = << >>
    /\ sent' = << >>
    /\ UNCHANGED << session, calls, requests, first_stored >>

FetchSelectedStep ==
    \E resp \in Responses(IF pc = "FetchSelected" THEN relevant_links[idx].s ELSE "") :
        FetchSelected(resp)

Next ==
    \/ \E u \in MainUrls, fl \in BOOLEAN : \E resp \in Responses(u) :
          FetchMain(Str(u), fl, resp)
    \/ ExtractLinks
    \/ \E reply \in SelectorReplies : SelectRelevant(reply)
    \/ FetchSelectedStep
    \/ \E reply \in SynthReplies : Synthesize(reply)
    \/ \E u \in {LinkA} : \E resp \in Responses(u) : DirectExtract(Str(u), resp)
    \/ Return

Spec == Init /\ [][Next]_vars

\* ------------------------------------------------- reading the history
IsFetch(e) == e.op = "fetch"
NumOp(op) == Cardinality({k \in DOMAIN events : events[k].op = op})

\* the calling position is inside, or at the end of, an answer_question call
InAnswer == pc \notin {"idle", "Extracted"}
Finished == pc \in {"Done", "Fail", "Raised"}

\* the extract_page_content calls made for selected links, in order
LinkedFetches == IF events = << >> THEN << >> ELSE SelectSeq(Tail(events), IsFetch)

GotContent(e) == TextLen(e.ret) # 0
Args(evs) == [k \in DOMAIN evs |-> evs[k].arg]

\* the context answer_question must have built from this history: the main
\* page first, then one section per linked fetch that returned content
RECURSIVE SectionsOf(_)
SectionsOf(evs) ==
    IF evs = << >> THEN << >>
    ELSE Lit("\n\n=== Linked Page: " \o Head(evs).arg.s \o " ===\n")
         \o Head(evs).ret \o Lit("\n") \o SectionsOf(Tail(evs))
ExpectedContext ==
    Lit("=== Main Page (" \o url.s \o ") ===\n") \o main_content \o Lit("\n")
    \o SectionsOf(SelectSeq(LinkedFetches, GotContent))

IsHeader(c) ==
    \/ StartsAt(c.s, 1, "=== Main Page (")
    \/ StartsAt(c.s, 1, "\n\n=== Linked Page: ")
NumSections(text) == Cardinality({k \in DOMAIN text : IsHeader(text[k])})

\* TRUE only if text a is a prefix of text b
RECURSIVE IsPrefix(_, _)
IsPrefix(a, b) ==
    IF a = << >> THEN TRUE
    ELSE IF b = << >> THEN FALSE
    ELSE LET ca == Head(a)
             cb == Head(b)
         IN IF ca = cb THEN IsPrefix(Tail(a), Tail(b))
            ELSE IF ca.s = cb.s /\ ca.n < cb.n
                 THEN IsPrefix(Tail(a), << Chunk(cb.s, cb.n - ca.n) >> \o Tail(b))
            ELSE /\ ca.n = 1
                 /\ Len(ca.s) < Len(cb.s)
                 /\ SubSeq(cb.s, 1, Len(ca.s)) = ca.s
                 /\ Tail(a) = << >>

\* ---------------------------------------------------------------- claims

\* C1: within one session no URL is requested from the content service more
\* than once, whatever the outcomes of the requests.
C1_AtMostOneRequestPerUrl == \A u \in DOMAIN requests : requests[u] <= 1

\* C2: ask_llm_for_links returns at most MAX_LINKS_TO_FOLLOW links for every
\* model reply, and no run calls extract_page_content for more than that many
\* linked pages.
C2_AtMostMaxLinks ==
    /\ Len(relevant_links) <= MAX_LINKS_TO_FOLLOW
    /\ InAnswer => Len(LinkedFetches) <= MAX_LINKS_TO_FOLLOW
    /\ pc = "SelectRelevant" =>
          \A reply \in SelectorReplies :
              Len(AskLlmForLinks(links, reply)) <= MAX_LINKS_TO_FOLLOW
C2_Witness ==
    /\ pc = "Done"
    /\ Len(LinkedFetches) = MAX_LINKS_TO_FOLLOW
    /\ Len(relevant_links) = MAX_LINKS_TO_FOLLOW

\* C3: when the main page fetch yields no content, answer_question returns
\* the failure message having made no other fetch, no link extraction, no
\* relevance selection and no answer synthesis.
C3_MainFailureStops ==
    /\ (InAnswer /\ TextLen(main_content) = 0) =>
          /\ pc = "Fail"
          /\ result = FAILURE_MESSAGE
          /\ Len(events) = 1
          /\ IsFetch(events[1]) /\ events[1].arg = url
          /\ links = << >> /\ relevant_links = << >> /\ sent = << >>
    /\ pc = "Fail" => TextLen(main_content) = 0
C3_Witness ==
    /\ pc = "Fail"
    /\ url \notin visited_urls
    /\ Count(requests, url) = 1

\* C4: an extract_page_content call for a URL already in the session cache
\* returns the content stored by the first successful fetch of that URL,
\* issues no network request and leaves visited_urls and page_contents as
\* they were.
C4_CachedFetch ==
    [][ (/\ Len(events') = Len(events) + 1
         /\ IsFetch(events'[Len(events')])
         /\ events'[Len(events')].arg \in visited_urls)
        => LET e == events'[Len(events')]
           IN /\ e.arg \in DOMAIN page_contents
              /\ e.ret = page_contents[e.arg]
              /\ e.ret = first_stored[e.arg]
              /\ ~e.net
              /\ requests' = requests
              /\ visited_urls' = visited_urls
              /\ page_contents' = page_contents ]_vars
C4_Witness ==
    \E k \in DOMAIN events :
        /\ IsFetch(events[k])
        /\ ~events[k].net
        /\ events[k].arg \in visited_urls
        /\ GotContent(events[k])

\* C5: no exception propagates out of answer_question, whatever the external
\* services answer.
C5_NoException == pc # "Raised"

\* C6: main page with 3 matching links, selector returns 2 of them.
C6_Case ==
    /\ pc = "Done"
    /\ follow_links
    /\ Len(relevant_links) = 2
    /\ relevant_links[1] # relevant_links[2]
    /\ LET found == NotionLinkSet(main_content)
       IN /\ Cardinality(found) = 3
          /\ \A k \in 1..2 : /\ relevant_links[k].t = "str"
                             /\ relevant_links[k].s \in found

\* C6 (as stated): in that case exactly 2 additional page fetches are made
\* and generate_answer is called once with a context of exactly 3 sections.
C6_ExactlyThreeSections ==
    C6_Case => /\ Len(LinkedFetches) = 2
               /\ NumOp("generate") = 1
               /\ NumSections(all_content) = 3

\* C6 (amended): in that case exactly 2 additional extract_page_content
\* calls are made, one per selected link in order, generate_answer is called
\* once, and the context holds the Main Page section plus one Linked Page
\* section for each selected link whose fetch returned content.
C6_SectionPerFetchedLink ==
    C6_Case => /\ Len(LinkedFetches) = 2
               /\ Args(LinkedFetches) = relevant_links
               /\ NumOp("generate") = 1
               /\ NumSections(all_content)
                     = 1 + Len(SelectSeq(LinkedFetches, GotContent))
C6_Witness ==
    /\ C6_Case
    /\ NumSections(all_content) = 3
    /\ \A k \in 1..2 : LinkedFetches[k].net

\* C7: with the main page fetched and nothing to follow (no matching link, or
\* the selector yields an empty list), no additional page is fetched and
\* generate_answer is called once with the Main Page section only; with no
\* matching link the selector is not called.
C7_NothingToFollow ==
    (/\ pc = "Done"
     /\ \/ NumOp("select") = 1 /\ relevant_links = << >>
        \/ NotionLinkSet(main_content) = {})
    => /\ NumOp("fetch") = 1
       /\ NumOp("generate") = 1
       /\ all_content = MainSection(url, main_content)
       /\ NumOp("select") = 0 \/ NotionLinkSet(main_content) # {}
C7_Witness ==
    /\ pc = "Done"
    /\ follow_links
    /\ NotionLinkSet(main_content) = {}
C7_WitnessNoneSelected ==
    /\ pc = "Done"
    /\ NumOp("select") = 1
    /\ relevant_links = << >>

\* C8: when the fetch of a selected linked page fails, no section is added
\* for it, every remaining selected link is still attempted in order,
\* generate_answer is still called exactly once and the run does not fail.
C8_Case ==
    \E k \in DOMAIN LinkedFetches :
        LinkedFetches[k].net /\ ~GotContent(LinkedFetches[k])
C8_LinkFailureSkipped ==
    (Finished /\ C8_Case)
    => /\ pc = "Done"
       /\ result # FAILURE_MESSAGE
       /\ Args(LinkedFetches) = relevant_links
       /\ NumOp("generate") = 1
       /\ all_content = ExpectedContext

\* C9: the context given to generate_answer is the Main Page section followed
\* by the Linked Page sections of the links that returned content, in the
\* selector's order; every fetch precedes the single generate_answer call;
\* the text sent is the prefix of the context of at most CONTEXT_LIMIT
\* characters.
C9_ContextOrder ==
    /\ pc = "Done" =>
          /\ all_content = ExpectedContext
          /\ Args(LinkedFetches) = relevant_links
          /\ NumOp("generate") = 1
          /\ events[Len(events)].op = "generate"
          /\ TextLen(sent) = Min(TextLen(all_content), CONTEXT_LIMIT)
          /\ IsPrefix(sent, all_content)
    /\ pc # "Done" => NumOp("generate") = 0
C9_Witness ==
    /\ pc = "Done"
    /\ Len(SelectSeq(LinkedFetches, GotContent)) >= 2
    /\ C8_Case
    /\ TextLen(all_content) > CONTEXT_LIMIT
    /\ TextLen(sent) = CONTEXT_LIMIT

\* C10: every URL given to extract_page_content during answer_question is
\* the main page URL or a link extract_notion_links found in the main page.
C10_OnlyDiscoveredLinks ==
    InAnswer =>
        \A k \in DOMAIN events :
            IsFetch(events[k]) =>
                \/ events[k].arg = url
                \/ /\ events[k].arg.t = "str"
                   /\ events[k].arg.s \in NotionLinkSet(main_content)

====
